---- MODULE Spec2Model ----
(***************************************************************************)
(* Model of the native camera pipeline: the JNI boundary (native-lib.cpp), *)
(* the Renderer (renderer.cpp) and the frame processor (processor.cpp).    *)
(* The OpenGL ES 2.0 context and the OpenCV calls are modelled by what the *)
(* code asks of them.                                                      *)
(***************************************************************************)
EXTENDS Integers, Sequences, FiniteSets, TLC

\* ------------------------------------------------------------------ bounds

\* Number of boundary calls the host makes.
MaxCalls == 5
\* Largest object name the GL context hands out (per object kind).
MaxGlNames == 2

\* ------------------------------------------------------- program constants

MODE_PASSTHROUGH == 0
MODE_GRAYSCALE == 1
MODE_CANNY == 2
PROCESSING_MODE == MODE_CANNY
CannyLow == 80
CannyHigh == 160

\* ------------------------------------------------------------- input sets

\* Frame and preview sizes <<width, height>> the host may use.
Sizes == {<<2, 2>>, <<4, 2>>}
\* Screen sizes the host may report.
ScreenSizes == {<<3, 5>>, <<5, 3>>}
\* Byte values a read of never-written memory may yield.
GarbageBytes == {0, 85}
\* Kinds of failure an internal call may raise.
Raises == {"none", "std", "other"}

\* Heap addresses of Renderer objects. The host view owns one pipeline at a
\* time; a Renderer allocated after a release lands on the freed block.
Addrs == {1}
GlNames == 1..MaxGlNames

\* ---------------------------------------------------------------- helpers

Min(a, b) == IF a < b THEN a ELSE b
Max(a, b) == IF a > b THEN a ELSE b
Abs(a) == IF a < 0 THEN -a ELSE a
Clamp8(v) == Max(0, Min(255, v))
Fill(n, v) == [i \in 1..n |-> v]
\* The first n values of f, as a sequence.
RECURSIVE Pixels(_, _)
Pixels(f, n) == IF n = 0 THEN <<>> ELSE Append(Pixels(f, n - 1), f[n])

\* ------------------------------------------------------------ NV21 frames

\* An NV21 buffer: width*height luma bytes, then width*height/2 bytes of
\* interleaved V,U.
NV21(luma, chroma) == luma \o chroma
NeutralChroma(w, h) == Fill((w * h) \div 2, 128)
\* Luma planes delivered by the camera: two uniform ones and a vertical step.
UniformLuma(w, h, L) == Fill(w * h, L)
StepLuma(w, h) == [i \in 1..(w * h) |-> IF ((i - 1) % w) < (w \div 2) THEN 16 ELSE 235]
\* Bytes of an NV21 frame of w x h pixels.
FrameBytes(w, h) == (w * h * 3) \div 2
FramesOf(w, h) ==
    { NV21(UniformLuma(w, h, 16), NeutralChroma(w, h)),
      NV21(UniformLuma(w, h, 200), NeutralChroma(w, h)),
      NV21(StepLuma(w, h), NeutralChroma(w, h)) }

\* Byte arrays the host delivers for a declared size: the frames, and an array
\* that is too short (a luma plane with no chroma after it).
ArraysOf(w, h) == FramesOf(w, h) \cup {UniformLuma(w, h, 16)}

\* The FrameBytes(w, h) bytes found at the start of an array's elements: the
\* bytes past the end of a short array are whatever the memory holds.
BytesAt(data, w, h, garbage) ==
    Pixels([i \in 1..FrameBytes(w, h) |-> IF i <= Len(data) THEN data[i] ELSE garbage],
           FrameBytes(w, h))

\* ------------------------------------------------- image library (OpenCV)

\* cv::cvtColor(COLOR_YUV2RGBA_NV21): BT.601 limited range, fixed point.
YuvToRgba(y, u, v) ==
    LET c == Max(0, y - 16)
        d == u - 128
        e == v - 128
    IN  << Clamp8((298 * c + 409 * e + 128) \div 256),
           Clamp8((298 * c - 100 * d - 208 * e + 128) \div 256),
           Clamp8((298 * c + 516 * d + 128) \div 256),
           255 >>

cvtColorNV21(data, w, h) ==
    Pixels([i \in 1..(w * h) |->
               LET x == (i - 1) % w
                   y == (i - 1) \div w
                   k == w * h + (y \div 2) * w + 2 * (x \div 2)
               IN  YuvToRgba(data[i], data[k + 2], data[k + 1])], w * h)

\* cv::cvtColor(COLOR_RGBA2GRAY)
cvtColorRGBA2GRAY(rgba) ==
    Pixels([i \in 1..Len(rgba) |->
               (rgba[i][1] * 4899 + rgba[i][2] * 9617 + rgba[i][3] * 1868 + 8192) \div 16384],
           Len(rgba))

\* cv::cvtColor(COLOR_GRAY2RGBA)
cvtColorGRAY2RGBA(gray) ==
    Pixels([i \in 1..Len(gray) |-> <<gray[i], gray[i], gray[i], 255>>], Len(gray))

\* Pixel (x, y) of a single-channel image, borders replicated.
At(img, w, h, x, y) ==
    img[Max(0, Min(h - 1, y)) * w + Max(0, Min(w - 1, x)) + 1]

\* 3x3 Sobel gradient magnitude (L1 norm) at pixel i.
SobelMag(img, w, h, i) ==
    LET x == (i - 1) % w
        y == (i - 1) \div w
        gx == (At(img, w, h, x + 1, y - 1) + 2 * At(img, w, h, x + 1, y) + At(img, w, h, x + 1, y + 1))
            - (At(img, w, h, x - 1, y - 1) + 2 * At(img, w, h, x - 1, y) + At(img, w, h, x - 1, y + 1))
        gy == (At(img, w, h, x - 1, y + 1) + 2 * At(img, w, h, x, y + 1) + At(img, w, h, x + 1, y + 1))
            - (At(img, w, h, x - 1, y - 1) + 2 * At(img, w, h, x, y - 1) + At(img, w, h, x + 1, y - 1))
    IN  Abs(gx) + Abs(gy)

\* Whether pixels i and j are 8-neighbours.
Adjacent(w, i, j) ==
    /\ i # j
    /\ Abs(((i - 1) % w) - ((j - 1) % w)) <= 1
    /\ Abs(((i - 1) \div w) - ((j - 1) \div w)) <= 1

\* cv::Canny: a pixel is an edge (255) when its gradient exceeds the high
\* threshold, or exceeds the low one next to such a pixel; 0 otherwise.
Canny(gray, w, h, low, high) ==
    LET n == w * h
        mag == Pixels([i \in 1..n |-> SobelMag(gray, w, h, i)], n)
        strong == {i \in 1..n : mag[i] > high}
        weak == {i \in 1..n : mag[i] > low /\ \E j \in strong : Adjacent(w, i, j)}
    IN  Pixels([i \in 1..n |-> IF i \in strong \cup weak THEN 255 ELSE 0], n)

\* --------------------------------------------- graphics context (GLES 2.0)

\* Attribute indexes the context accepts (GL_MAX_VERTEX_ATTRIBS is at least 8;
\* the two the shader declares are 0 and 1).
AttribIndexes == {0, 1}

NoImage == [w |-> 0, h |-> 0, px |-> <<>>]
ClearedScreen == [drawn |-> FALSE, px |-> <<>>]
GarbagePixel(b) == <<b, b, b, b>>
\* A pixel whose bytes were never written: each read of it may yield any bytes.
IndPixel == <<-1, -1, -1, -1>>
Resolve(px, garbage) ==
    [i \in 1..Len(px) |-> IF px[i] = IndPixel THEN GarbagePixel(garbage) ELSE px[i]]

\* The context before any call: no objects but the default texture 0, which
\* has no storage; nothing bound.
GlInit ==
    [ programs |-> {}, linked |-> {}, textures |-> {}, buffers |-> {}, quads |-> {},
      image |-> [n \in 0..MaxGlNames |-> NoImage],
      progOwner |-> [n \in GlNames |-> 0],
      texOwner |-> [n \in GlNames |-> 0],
      bufOwner |-> [n \in GlNames |-> 0],
      program |-> 0, texture2D |-> 0, arrayBuffer |-> 0,
      attribs |-> {}, pointer |-> [i \in AttribIndexes |-> 0],
      viewport |-> <<0, 0>>, screen |-> ClearedScreen, log |-> <<>> ]

GlLog(g, call, arg) == [g EXCEPT !.log = Append(@, <<call, arg>>)]

\* The smallest name not in use, as glGen*/glCreateProgram return it.
FreeNames(used) == GlNames \ used
GenName(used) == CHOOSE n \in FreeNames(used) : \A m \in FreeNames(used) : n <= m

\* compileShader + glAttachShader: shader objects live only inside
\* onSurfaceCreated; they are recorded in the call log.
glCreateProgram(g, this) ==
    LET p == GenName(g.programs)
    IN  [GlLog(g, "glCreateProgram", p) EXCEPT
            !.programs = @ \cup {p}, !.progOwner[p] = this]

glLinkProgram(g, p, ok) ==
    [GlLog(g, "glLinkProgram", p) EXCEPT
        !.linked = IF ok /\ p \in g.programs THEN @ \cup {p} ELSE @ \ {p}]

glGetAttribLocation(g, p, index) == IF p \in g.linked THEN index ELSE -1
glGetUniformLocation(g, p) == IF p \in g.linked THEN 0 ELSE -1

glGenTextures(g, this) ==
    LET t == GenName(g.textures)
    IN  [GlLog(g, "glGenTextures", t) EXCEPT
            !.textures = @ \cup {t}, !.texOwner[t] = this, !.image[t] = NoImage]

\* Binding an unused name creates the object (GLES 2.0); a name outside the
\* range the model tracks is an error and binds nothing.
glBindTexture(g, t, this) ==
    LET g1 == GlLog(g, "glBindTexture", t)
    IN  IF t = 0 \/ t \in g.textures THEN [g1 EXCEPT !.texture2D = t]
        ELSE IF t \in GlNames
        THEN [g1 EXCEPT !.textures = @ \cup {t}, !.texOwner[t] = this,
                        !.image[t] = NoImage, !.texture2D = t]
        ELSE g1

\* A storage allocation that would ignore the height it is given.
glTexImage2D_square(g, w, h) ==
    [GlLog(g, "glTexImage2D", w * h) EXCEPT
        !.image[g.texture2D] = [w |-> w, h |-> w, px |-> Fill(w * w, IndPixel)]]

\* glTexImage2D with a null data pointer: storage whose contents are undefined.
glTexImage2D(g, w, h) ==
    LET g1 == GlLog(g, "glTexImage2D", w * h)
    IN  IF w >= 0 /\ h >= 0
        THEN [g1 EXCEPT !.image[g.texture2D] =
                 [w |-> w, h |-> h, px |-> Fill(w * h, IndPixel)]]
        ELSE g1

\* glTexSubImage2D of the region (0,0)-(w,h): an error that changes nothing
\* when the region does not fit the texture's storage.
SubImageFits(g, w, h) ==
    LET img == g.image[g.texture2D]
    IN  w >= 0 /\ h >= 0 /\ w <= img.w /\ h <= img.h /\ img.w > 0 /\ img.h > 0

glTexSubImage2D(g, w, h, pixels) ==
    LET g1 == GlLog(g, "glTexSubImage2D", g.texture2D)
        img == g.image[g.texture2D]
    IN  IF SubImageFits(g, w, h)
        THEN [g1 EXCEPT !.image[g.texture2D].px =
                 [i \in 1..(img.w * img.h) |->
                     LET x == (i - 1) % img.w
                         y == (i - 1) \div img.w
                     IN  IF x < w /\ y < h THEN pixels[y * w + x + 1] ELSE img.px[i]]]
        ELSE g1

glGenBuffers(g, this) ==
    LET b == GenName(g.buffers)
    IN  [GlLog(g, "glGenBuffers", b) EXCEPT
            !.buffers = @ \cup {b}, !.bufOwner[b] = this]

glBindBuffer(g, b, this) ==
    LET g1 == GlLog(g, "glBindBuffer", b)
    IN  IF b = 0 \/ b \in g.buffers THEN [g1 EXCEPT !.arrayBuffer = b]
        ELSE IF b \in GlNames
        THEN [g1 EXCEPT !.buffers = @ \cup {b}, !.bufOwner[b] = this, !.arrayBuffer = b]
        ELSE g1

\* glBufferData of the full-screen quad into the bound array buffer.
glBufferData(g) ==
    [GlLog(g, "glBufferData", g.arrayBuffer) EXCEPT
        !.quads = IF g.arrayBuffer # 0 THEN @ \cup {g.arrayBuffer} ELSE @]

glViewport(g, w, h) ==
    LET g1 == GlLog(g, "glViewport", w * h)
    IN  IF w >= 0 /\ h >= 0 THEN [g1 EXCEPT !.viewport = <<w, h>>] ELSE g1

glClear(g) ==
    [GlLog(GlLog(g, "glClearColor", 0), "glClear", 0) EXCEPT !.screen = ClearedScreen]

glUseProgram(g, p) ==
    LET g1 == GlLog(g, "glUseProgram", p)
    IN  IF p = 0 \/ p \in g.linked THEN [g1 EXCEPT !.program = p] ELSE g1

glEnableVertexAttribArray(g, loc) ==
    LET g1 == GlLog(g, "glEnableVertexAttribArray", loc)
    IN  IF loc \in AttribIndexes THEN [g1 EXCEPT !.attribs = @ \cup {loc}] ELSE g1

glDisableVertexAttribArray(g, loc) ==
    LET g1 == GlLog(g, "glDisableVertexAttribArray", loc)
    IN  IF loc \in AttribIndexes THEN [g1 EXCEPT !.attribs = @ \ {loc}] ELSE g1

glVertexAttribPointer(g, loc) ==
    LET g1 == GlLog(g, "glVertexAttribPointer", loc)
    IN  IF loc \in AttribIndexes THEN [g1 EXCEPT !.pointer[loc] = g.arrayBuffer] ELSE g1

\* The draw is well defined when a linked program is current, the bound
\* texture has storage and both attributes read the quad from a buffer; it
\* then shows the bound texture. Otherwise what reaches the screen is undefined.
DrawDefined(g) ==
    /\ g.program \in g.linked
    /\ g.image[g.texture2D].w > 0
    /\ g.attribs = AttribIndexes
    /\ \A i \in AttribIndexes : g.pointer[i] \in g.quads

glDrawArrays(g, garbage) ==
    [GlLog(g, "glDrawArrays", 4) EXCEPT
        !.screen = IF DrawDefined(g)
                   THEN [drawn |-> TRUE, px |-> Resolve(g.image[g.texture2D].px, garbage)]
                   ELSE [drawn |-> TRUE, px |-> <<GarbagePixel(garbage)>>]]

\* glDelete*: silently ignores 0 and names that are not objects; a deleted
\* object that is bound is unbound.
glDeleteProgram(g, p) ==
    [GlLog(g, "glDeleteProgram", p) EXCEPT
        !.programs = @ \ {p}, !.linked = @ \ {p},
        !.progOwner = [n \in GlNames |-> IF n = p THEN 0 ELSE @[n]],
        !.program = IF @ = p THEN 0 ELSE @]

glDeleteTextures(g, t) ==
    [GlLog(g, "glDeleteTextures", t) EXCEPT
        !.textures = @ \ {t},
        !.image = [n \in 0..MaxGlNames |-> IF n = t /\ t # 0 THEN NoImage ELSE @[n]],
        !.texOwner = [n \in GlNames |-> IF n = t THEN 0 ELSE @[n]],
        !.texture2D = IF @ = t THEN 0 ELSE @]

glDeleteBuffers(g, b) ==
    [GlLog(g, "glDeleteBuffers", b) EXCEPT
        !.buffers = @ \ {b}, !.quads = @ \ {b},
        !.bufOwner = [n \in GlNames |-> IF n = b THEN 0 ELSE @[n]],
        !.arrayBuffer = IF @ = b THEN 0 ELSE @,
        !.pointer = [i \in AttribIndexes |-> IF @[i] = b THEN 0 ELSE @[i]]]

\* ------------------------------------------------- processor.cpp (OpenCV)

NoMat == <<0, 0>>

\* The thread_local buffers of processor.cpp, by their dimensions <<rows, cols>>.
TlsInit ==
    [ initialized |-> FALSE,
      yuvMat |-> NoMat, rgbaMat |-> NoMat, grayMat |-> NoMat, edgesMat |-> NoMat ]

initializeBuffers(t, width, height) ==
    IF ~t.initialized
    THEN [ initialized |-> TRUE,
           yuvMat |-> <<height + height \div 2, width>>,
           rgbaMat |-> <<height, width>>,
           grayMat |-> <<height, width>>,
           edgesMat |-> <<height, width>> ]
    ELSE t

\* A processFrame that would run in MODE_PASSTHROUGH whatever the mode.
Transform_passthrough(nv21Data, width, height, mode) ==
    cvtColorNV21(nv21Data, width, height)

\* The pixels processFrame computes for a frame, by processing mode.
Transform(nv21Data, width, height, mode) ==
    LET rgba == cvtColorNV21(nv21Data, width, height)
        gray == cvtColorRGBA2GRAY(rgba)
    IN  CASE mode = MODE_PASSTHROUGH -> rgba
          [] mode = MODE_GRAYSCALE -> cvtColorGRAY2RGBA(gray)
          [] mode = MODE_CANNY ->
                cvtColorGRAY2RGBA(Canny(gray, width, height, CannyLow, CannyHigh))

\* Stages of processFrame at which the image library may throw.
CvFailures == {"none", "cvtColor", "Canny"}

\* processFrame: the output buffer is written only by the final memcpy, which
\* an exception thrown (and caught) before it skips. cvtColor and Canny
\* re-create their destination matrix when its size differs. yuvInput wraps
\* height + height/2 rows of width bytes at nv21Data, however many the caller
\* owns there.
processFrame(t, nv21Data, width, height, rgbaOut, cvFail, garbage) ==
    LET t1 == initializeBuffers(t, width, height)
        t2 == [t1 EXCEPT !.rgbaMat = <<height, width>>]
        t3 == IF PROCESSING_MODE = MODE_PASSTHROUGH THEN t2
              ELSE [t2 EXCEPT !.grayMat = <<height, width>>]
        t4 == IF PROCESSING_MODE = MODE_CANNY
              THEN [t3 EXCEPT !.edgesMat = <<height, width>>] ELSE t3
    IN  CASE cvFail = "cvtColor" -> [tls |-> t1, rgbaOut |-> rgbaOut]
          [] cvFail = "Canny" /\ PROCESSING_MODE = MODE_CANNY ->
                [tls |-> t3, rgbaOut |-> rgbaOut]
          [] OTHER ->
                [tls |-> t4,
                 rgbaOut |-> Transform(BytesAt(nv21Data, width, height, garbage),
                                       width, height, PROCESSING_MODE)]

\* ------------------------------------------------------------ renderer.cpp

\* An int read from memory that holds the byte b in every position.
GarbageInt(b) == b * 16843009

\* Memory at an address no Renderer was ever constructed at.
NoRenderer ==
    [ previewWidth |-> 0, previewHeight |-> 0, screenWidth |-> 0, screenHeight |-> 0,
      program |-> 0, texture |-> 0, vbo |-> 0,
      locsSet |-> FALSE, positionLoc |-> 0, texCoordLoc |-> 0, textureLoc |-> 0,
      rgbaBuffer |-> <<>>, hasFrame |-> FALSE, uploaded |-> <<>> ]

\* A constructor that would start with hasFrame_ set.
Renderer_startsWithFrame(previewWidth, previewHeight) ==
    [ NoRenderer EXCEPT
        !.previewWidth = previewWidth, !.previewHeight = previewHeight,
        !.rgbaBuffer = Fill(previewWidth * previewHeight, IndPixel),
        !.hasFrame = TRUE ]

\* Renderer::Renderer. The three location fields have no initializer
\* (locsSet is false until onSurfaceCreated writes them) and the new[]
\* buffer is not written. uploaded is not a field of the class: it keeps the
\* pixels this pipeline last uploaded into a texture (<<>>: none yet).
Renderer(previewWidth, previewHeight) ==
    [ previewWidth |-> previewWidth, previewHeight |-> previewHeight,
      screenWidth |-> 0, screenHeight |-> 0,
      program |-> 0, texture |-> 0, vbo |-> 0,
      locsSet |-> FALSE, positionLoc |-> 0, texCoordLoc |-> 0, textureLoc |-> 0,
      rgbaBuffer |-> Fill(previewWidth * previewHeight, IndPixel),
      hasFrame |-> FALSE, uploaded |-> <<>> ]

\* Renderer::~Renderer: the GL deletions.
DestroyRenderer(r, g) ==
    LET g1 == IF r.program # 0 THEN glDeleteProgram(g, r.program) ELSE g
        g2 == IF r.texture # 0 THEN glDeleteTextures(g1, r.texture) ELSE g1
        g3 == IF r.vbo # 0 THEN glDeleteBuffers(g2, r.vbo) ELSE g2
    IN  g3

\* Whether the context can still name one more program, texture and buffer.
CanCreate(g) ==
    /\ FreeNames(g.programs) # {}
    /\ FreeNames(g.textures) # {}
    /\ FreeNames(g.buffers) # {}

onSurfaceCreated(this, r, g, linkOk) ==
    LET g1 == GlLog(GlLog(g, "compileShader", 0), "compileShader", 1)
        g2 == glCreateProgram(g1, this)
        program == GenName(g1.programs)
        g3 == glLinkProgram(GlLog(GlLog(g2, "glAttachShader", 0), "glAttachShader", 1),
                            program, linkOk)
        g4 == GlLog(GlLog(g3, "glDeleteShader", 0), "glDeleteShader", 1)
        g5 == glGenTextures(g4, this)
        texture == GenName(g4.textures)
        g6 == GlLog(glBindTexture(g5, texture, this), "glTexParameteri", 4)
        g7 == glTexImage2D(g6, r.previewWidth, r.previewHeight)
        g8 == glGenBuffers(g7, this)
        vbo == GenName(g7.buffers)
        g9 == glBufferData(glBindBuffer(g8, vbo, this))
    IN  [ r |-> [r EXCEPT !.program = program, !.texture = texture, !.vbo = vbo,
                          !.locsSet = TRUE,
                          !.positionLoc = glGetAttribLocation(g4, program, 0),
                          !.texCoordLoc = glGetAttribLocation(g4, program, 1),
                          !.textureLoc = glGetUniformLocation(g4, program)],
          g |-> g9 ]

\* A resize that would also forget the displayed frame.
onSurfaceChanged_dropsFrame(r, g, width, height) ==
    [ r |-> [r EXCEPT !.screenWidth = width, !.screenHeight = height, !.hasFrame = FALSE],
      g |-> glViewport(g, width, height) ]

onSurfaceChanged(r, g, width, height) ==
    [ r |-> [r EXCEPT !.screenWidth = width, !.screenHeight = height],
      g |-> glViewport(g, width, height) ]

\* onCameraFrame past its size check: transform, then upload and mark.
UploadFrame(this, r, g, t, nv21Data, width, height, cvFail, garbage) ==
    LET p == processFrame(t, nv21Data, width, height, r.rgbaBuffer, cvFail, garbage)
        g1 == GlLog(glBindTexture(g, r.texture, this), "glPixelStorei", 1)
        g2 == glTexSubImage2D(g1, r.previewWidth, r.previewHeight, p.rgbaOut)
    IN  [ r |-> [r EXCEPT !.rgbaBuffer = p.rgbaOut, !.hasFrame = TRUE,
                          !.uploaded = IF SubImageFits(g1, r.previewWidth, r.previewHeight)
                                       THEN p.rgbaOut ELSE @],
          g |-> g2, tls |-> p.tls ]

\* A size test that would reject a frame only when both dimensions differ.
onCameraFrame_bothDiffer(this, r, g, t, nv21Data, width, height, cvFail, garbage) ==
    IF width # r.previewWidth /\ height # r.previewHeight
    THEN [r |-> r, g |-> g, tls |-> t]
    ELSE UploadFrame(this, r, g, t, nv21Data, width, height, cvFail, garbage)

\* A frame delivery that would drop an array shorter than the frame.
onCameraFrame_checksLength(this, r, g, t, nv21Data, width, height, cvFail, garbage) ==
    IF width # r.previewWidth \/ height # r.previewHeight
          \/ Len(nv21Data) < FrameBytes(width, height)
    THEN [r |-> r, g |-> g, tls |-> t]
    ELSE UploadFrame(this, r, g, t, nv21Data, width, height, cvFail, garbage)

onCameraFrame(this, r, g, t, nv21Data, width, height, cvFail, garbage) ==
    IF width # r.previewWidth \/ height # r.previewHeight
    THEN [r |-> r, g |-> g, tls |-> t]
    ELSE UploadFrame(this, r, g, t, nv21Data, width, height, cvFail, garbage)

\* A location field as onDrawFrame reads it.
ReadLoc(r, value, garbage) == IF r.locsSet THEN value ELSE GarbageInt(garbage)

\* onDrawFrame past its hasFrame_ check: the textured quad.
DrawQuad(this, r, g, garbage) ==
    LET positionLoc == ReadLoc(r, r.positionLoc, garbage)
        texCoordLoc == ReadLoc(r, r.texCoordLoc, garbage)
        textureLoc == ReadLoc(r, r.textureLoc, garbage)
        g2 == glUseProgram(g, r.program)
        g3 == glBindTexture(GlLog(g2, "glActiveTexture", 0), r.texture, this)
        g4 == glBindBuffer(GlLog(g3, "glUniform1i", textureLoc), r.vbo, this)
        g5 == glVertexAttribPointer(glEnableVertexAttribArray(g4, positionLoc), positionLoc)
        g6 == glVertexAttribPointer(glEnableVertexAttribArray(g5, texCoordLoc), texCoordLoc)
        g7 == glDrawArrays(g6, garbage)
    IN  glDisableVertexAttribArray(glDisableVertexAttribArray(g7, positionLoc), texCoordLoc)

\* A draw that would not stop after the clear.
onDrawFrame_noSkip(this, r, g, garbage) ==
    [r |-> r, g |-> DrawQuad(this, r, glClear(g), garbage)]

onDrawFrame(this, r, g, garbage) ==
    IF ~r.hasFrame
    THEN [r |-> r, g |-> glClear(g)]
    ELSE [r |-> r, g |-> DrawQuad(this, r, glClear(g), garbage)]

\* ---------------------------------------------------------- native-lib.cpp

VARIABLES
    heap,      \* heap[a]: the Renderer object at address a (stale once freed)
    live,      \* addresses that hold a constructed, not yet deleted Renderer
    issued,    \* handles nativeInit has returned to the host
    gl,        \* the graphics context
    tls,       \* processor.cpp's thread_local buffers
    crashed,   \* the host process was terminated
    call,      \* the boundary call made last
    jni,       \* byte-array elements the last call got from and released to the VM
    calls      \* number of boundary calls made so far

vars == <<heap, live, issued, gl, tls, crashed, call, jni, calls>>

\* Handles the host may pass: 0 or anything nativeInit returned.
Handles == {0} \cup issued

\* What undefined behaviour on a freed Renderer may do: terminate the process,
\* or run on the stale memory as if the object were alive.
UbOutcomes == {"crash", "stale"}
\* The outcomes open to a call on handle: only a freed Renderer makes a choice.
UbOf(handle) == IF handle # 0 /\ handle \notin live THEN UbOutcomes ELSE {"stale"}

NoCall == [op |-> "none", handle |-> 0, size |-> <<0, 0>>, result |-> "none", freed |-> FALSE]

\* The record of a call; freed: the handle named a Renderer already deleted.
Called(op, handle, size, result) ==
    [op |-> op, handle |-> handle, size |-> size, result |-> result,
     freed |-> handle # 0 /\ handle \notin live]

StartCall(g) == [g EXCEPT !.log = <<>>]

\* JNI array access of one call: GetByteArrayElements that returned a buffer,
\* and ReleaseByteArrayElements.
JniIdle == [got |-> 0, released |-> 0, length |-> 0]
GetByteArrayElements(j) == [j EXCEPT !.got = @ + 1]
ReleaseByteArrayElements(j) == [j EXCEPT !.released = @ + 1]
GetArrayLength(j, data) == [j EXCEPT !.length = Len(data)]

HeapInit == [a \in Addrs |-> NoRenderer]

Init ==
    /\ heap = HeapInit
    /\ live = {}
    /\ issued = {}
    /\ gl = GlInit
    /\ tls = TlsInit
    /\ crashed = FALSE
    /\ call = NoCall
    /\ jni = JniIdle
    /\ calls = 0

\* A boundary call that ends without running the Renderer: a rejected handle
\* ("rejected"), a failed array access ("failed") or an exception caught at
\* the boundary ("caught").
EndCall(op, handle, size, result) ==
    /\ call' = Called(op, handle, size, result)
    /\ gl' = StartCall(gl)
    /\ UNCHANGED <<heap, live, issued, tls, crashed>>

\* A boundary call that takes the host process down: an exception leaves the
\* JNI function ("escaped") or freed memory is used ("crashed"). Nothing of
\* the process is left.
Terminate(op, handle, size, result) ==
    /\ call' = Called(op, handle, size, result)
    /\ crashed' = TRUE
    /\ heap' = HeapInit
    /\ live' = {}
    /\ issued' = {}
    /\ gl' = GlInit
    /\ tls' = TlsInit

\* How a Renderer callback's boundary function ends for a handle and a failure
\* raised by the internal call: handle 0 is rejected, and the only catch
\* clause is catch (const std::exception&).
Guarded(handle, raise, ub) ==
    IF handle = 0 THEN "rejected"
    ELSE IF handle \notin live /\ ub = "crash" THEN "crashed"
    ELSE IF raise = "std" THEN "caught"
    ELSE IF raise = "other" THEN "escaped"
    ELSE "done"

\* A nativeInit that would lack its catch (...) clause.
InitGuarded_stdOnly(raise) ==
    IF raise = "none" THEN "done" ELSE IF raise = "std" THEN "caught" ELSE "escaped"

\* nativeInit: catch (const std::exception&) and catch (...), both returning 0.
InitGuarded(raise) == IF raise = "none" THEN "done" ELSE "caught"

\* nativeRelease: handle 0 is skipped; there is no try block, and the only
\* internal call is the implicitly noexcept destructor, so a failure raised
\* inside it ends the process (std::terminate).
ReleaseGuarded(handle, raise, ub) ==
    IF handle = 0 THEN "rejected"
    ELSE IF handle \notin live /\ ub = "crash" THEN "crashed"
    ELSE IF raise # "none" THEN "terminated"
    ELSE "done"

Finish(op, handle, size, result) ==
    IF result \in {"escaped", "terminated", "crashed"}
    THEN Terminate(op, handle, size, result)
    ELSE EndCall(op, handle, size, result)

nativeInit(previewWidth, previewHeight, a, raise) ==
    /\ ~crashed
    /\ jni' = JniIdle
    /\ a \in Addrs \ live
    /\ IF InitGuarded(raise) # "done"
       THEN Finish("nativeInit", 0, <<0, 0>>, InitGuarded(raise))
       ELSE /\ heap' = [heap EXCEPT ![a] = Renderer(previewWidth, previewHeight)]
            /\ live' = live \cup {a}
            /\ issued' = issued \cup {a}
            /\ gl' = StartCall(gl)
            /\ call' = [Called("nativeInit", a, <<0, 0>>, "done") EXCEPT !.freed = FALSE]
            /\ UNCHANGED <<tls, crashed>>

\* Deleting through a handle that was already released is undefined behaviour:
\* the process dies, or the destructor runs again on the stale object.
nativeRelease(handle, raise, ub) ==
    /\ ~crashed
    /\ jni' = JniIdle
    /\ handle \in Handles
    /\ LET result == ReleaseGuarded(handle, raise, ub)
       IN  IF result # "done" THEN Finish("nativeRelease", handle, <<0, 0>>, result)
           ELSE /\ gl' = DestroyRenderer(heap[handle], StartCall(gl))
                /\ live' = live \ {handle}
                /\ call' = Called("nativeRelease", handle, <<0, 0>>, "done")
                /\ UNCHANGED <<heap, issued, tls, crashed>>

nativeOnSurfaceCreated(handle, raise, ub) ==
    /\ ~crashed
    /\ jni' = JniIdle
    /\ handle \in Handles
    /\ CanCreate(gl)
    /\ LET result == Guarded(handle, raise, ub)
       IN  IF result # "done" THEN Finish("nativeOnSurfaceCreated", handle, <<0, 0>>, result)
           ELSE \E linkOk \in BOOLEAN :
                \E res \in {onSurfaceCreated(handle, heap[handle], StartCall(gl), linkOk)} :
                    /\ heap' = [heap EXCEPT ![handle] = res.r]
                    /\ gl' = res.g
                    /\ call' = Called("nativeOnSurfaceCreated", handle, <<0, 0>>, "done")
                    /\ UNCHANGED <<live, issued, tls, crashed>>

nativeOnSurfaceChanged(handle, raise, ub) ==
    /\ ~crashed
    /\ jni' = JniIdle
    /\ handle \in Handles
    /\ LET result == Guarded(handle, raise, ub)
       IN  IF result # "done" THEN Finish("nativeOnSurfaceChanged", handle, <<0, 0>>, result)
           ELSE \E size \in ScreenSizes :
                \E res \in {onSurfaceChanged(heap[handle], StartCall(gl), size[1], size[2])} :
                    /\ heap' = [heap EXCEPT ![handle] = res.r]
                    /\ gl' = res.g
                    /\ call' = Called("nativeOnSurfaceChanged", handle, <<0, 0>>, "done")
                    /\ UNCHANGED <<live, issued, tls, crashed>>

\* Whether a frame size is the preview size of Renderer r.
Matches(r, size) == size = <<r.previewWidth, r.previewHeight>>

\* nativeOnCameraFrame: GetByteArrayElements may fail ("failed"), which ends
\* the call before the Renderer is reached. The result is "cvError" when
\* processFrame ran and caught an exception of the image library. The static
\* frame counter and the array's length are only logged. The array is handed
\* to the Renderer whatever its length: reading a frame from a shorter one
\* runs past its end, which ends the process or yields stray bytes.
nativeOnCameraFrame(handle, width, height, raise, ub) ==
    /\ ~crashed
    /\ handle \in Handles
    /\ LET size == <<width, height>>
           result == Guarded(handle, raise, ub)
           got == GetByteArrayElements(JniIdle)
       IN  IF result = "rejected"
           THEN /\ Finish("nativeOnCameraFrame", handle, size, result)
                /\ jni' = JniIdle
           ELSE \/ /\ Finish("nativeOnCameraFrame", handle, size, "failed")
                   /\ jni' = JniIdle
                \/ \E data \in ArraysOf(width, height) :
                     LET logged == GetArrayLength(got, data)
                         short == /\ Len(data) < FrameBytes(width, height)
                                  /\ Matches(heap[handle], size)
                     IN  \/ /\ result = "caught"
                            /\ Finish("nativeOnCameraFrame", handle, size, result)
                            /\ jni' = ReleaseByteArrayElements(logged)
                         \/ /\ result \in {"escaped", "crashed"}
                            /\ Finish("nativeOnCameraFrame", handle, size, result)
                            /\ jni' = logged
                         \/ /\ result = "done" /\ short
                            /\ Finish("nativeOnCameraFrame", handle, size, "crashed")
                            /\ jni' = logged
                         \/ /\ result = "done"
                            /\ jni' = ReleaseByteArrayElements(logged)
                            /\ \E cvFail \in (IF Matches(heap[handle], size)
                                                THEN CvFailures ELSE {"none"}),
                                  garbage \in (IF short THEN GarbageBytes ELSE {0}) :
                                 \E res \in {onCameraFrame(handle, heap[handle], StartCall(gl),
                                                          tls, data, width, height, cvFail,
                                                          garbage)} :
                                     /\ heap' = [heap EXCEPT ![handle] = res.r]
                                     /\ gl' = res.g
                                     /\ tls' = res.tls
                                     /\ call' = Called("nativeOnCameraFrame", handle, size,
                                                       IF cvFail # "none"
                                                          /\ Matches(heap[handle], size)
                                                       THEN "cvError" ELSE "done")
                                     /\ UNCHANGED <<live, issued, crashed>>

\* The static draw counter is only logged.
nativeOnDrawFrame(handle, raise, ub) ==
    /\ ~crashed
    /\ jni' = JniIdle
    /\ handle \in Handles
    /\ LET result == Guarded(handle, raise, ub)
       IN  IF result # "done" THEN Finish("nativeOnDrawFrame", handle, <<0, 0>>, result)
           ELSE \E garbage \in (IF heap[handle].hasFrame THEN GarbageBytes ELSE {0}) :
                \E res \in {onDrawFrame(handle, heap[handle], StartCall(gl), garbage)} :
                    /\ heap' = [heap EXCEPT ![handle] = res.r]
                    /\ gl' = res.g
                    /\ call' = Called("nativeOnDrawFrame", handle, <<0, 0>>, "done")
                    /\ UNCHANGED <<live, issued, tls, crashed>>

\* The host makes one boundary call at a time, on the rendering thread, and
\* MaxCalls calls in all.
Tick == calls < MaxCalls /\ calls' = calls + 1

Next ==
    \/ \E size \in Sizes, a \in Addrs, raise \in Raises :
          Tick /\ nativeInit(size[1], size[2], a, raise)
    \/ \E handle \in Handles, raise \in Raises : \E ub \in UbOf(handle) :
          Tick /\ nativeRelease(handle, raise, ub)
    \/ \E handle \in Handles, raise \in Raises : \E ub \in UbOf(handle) :
          Tick /\ nativeOnSurfaceCreated(handle, raise, ub)
    \/ \E handle \in Handles, raise \in Raises : \E ub \in UbOf(handle) :
          Tick /\ nativeOnSurfaceChanged(handle, raise, ub)
    \/ \E handle \in Handles, size \in Sizes, raise \in Raises : \E ub \in UbOf(handle) :
          Tick /\ nativeOnCameraFrame(handle, size[1], size[2], raise, ub)
    \/ \E handle \in Handles, raise \in Raises : \E ub \in UbOf(handle) :
          Tick /\ nativeOnDrawFrame(handle, raise, ub)

Spec == Init /\ [][Next]_vars

\* ------------------------------------------------------------------ claims

\* The Renderer the last call named (handle # 0).
Target == heap[call.handle]
\* The last call reached the Renderer method.
Ran(op) == call.op = op /\ call.result \in {"done", "cvError"}
\* GL calls that use an object name.
UseCalls == {"glUseProgram", "glBindTexture", "glBindBuffer", "glTexSubImage2D"}
ClearOnly == << <<"glClearColor", 0>>, <<"glClear", 0>> >>
\* An uploaded image every pixel of which was written by a transform.
Determinate(px) == px # <<>> /\ \A i \in 1..Len(px) : px[i] # IndPixel

\* C1: a frame whose transform throws inside the image library adds no frame:
\* hasFrame_ keeps its value, the display buffer is not written, and after a
\* frame was uploaded the texture still holds that frame.
C1_FailedTransformAddsNoFrame ==
    [][ (call'.op = "nativeOnCameraFrame" /\ call'.result = "cvError" /\ ~call'.freed)
        => /\ heap'[call'.handle].hasFrame = heap[call'.handle].hasFrame
           /\ heap'[call'.handle].rgbaBuffer = heap[call'.handle].rgbaBuffer
           /\ heap[call'.handle].uploaded # <<>>
              => gl'.image[heap[call'.handle].texture].px = heap[call'.handle].uploaded ]_vars

\* C2: onCameraFrame and onDrawFrame never hand the object name 0 to a GL
\* call that uses a program, a texture or a buffer.
C2_NoUseOfAbsentHandle ==
    (call.op \in {"nativeOnCameraFrame", "nativeOnDrawFrame"} /\ ~call.freed)
    => \A i \in 1..Len(gl.log) : gl.log[i][1] \in UseCalls => gl.log[i][2] # 0

\* C3: hasFrame_ is false after construction, true after a frame of the
\* preview size was transformed and uploaded, and never goes from true to
\* false while the Renderer lives.
C3_HasFrameMonotonic ==
    /\ [](/\ (call.op = "nativeInit" /\ call.result = "done") => ~Target.hasFrame
          /\ (call.op = "nativeOnCameraFrame" /\ call.result = "done" /\ ~call.freed
                /\ Matches(Target, call.size)) => Target.hasFrame)
    /\ [][ \A a \in Addrs :
              (a \in live /\ a \in live' /\ heap[a].hasFrame) => heap'[a].hasFrame ]_vars

\* A frame was shown, and a later surface creation left hasFrame_ true.
C3_Witness ==
    /\ call.op = "nativeOnSurfaceCreated" /\ call.result = "done" /\ ~call.freed
    /\ Target.hasFrame
    /\ Target.uploaded # <<>>

\* C4: a frame whose size is not the preview size changes nothing: no
\* transform runs (the processor's buffers are untouched), and the Renderer,
\* its display buffer and the graphics context stay as they were.
C4_MismatchIsNoOp ==
    [][ (call'.op = "nativeOnCameraFrame" /\ call'.result = "done"
            /\ ~Matches(heap[call'.handle], call'.size))
        => (heap' = heap /\ tls' = tls /\ gl' = StartCall(gl)) ]_vars

\* A frame of another size reached a Renderer that already shows a frame.
C4_Witness ==
    /\ call.op = "nativeOnCameraFrame" /\ call.result = "done" /\ ~call.freed
    /\ ~Matches(Target, call.size)
    /\ Target.hasFrame /\ Target.uploaded # <<>>

\* C5: a release of a handle that was already released is rejected: it runs
\* no destructor and touches no freed state.
C5_SecondReleaseIsNoOp ==
    (call.op = "nativeRelease" /\ call.freed) => call.result = "rejected"

\* C6: after release, a callback made with the handle is rejected before it
\* reaches the freed Renderer.
C6_UseAfterReleaseRejected ==
    (call.op \in {"nativeOnSurfaceCreated", "nativeOnSurfaceChanged",
                  "nativeOnCameraFrame", "nativeOnDrawFrame"} /\ call.freed)
    => call.result \in {"rejected", "failed"}

\* C7: a draw of a pipeline whose program linked and that has uploaded a
\* transformed frame shows the pixels it last uploaded, whatever calls other
\* than a frame delivery came since; so two draws with no frame delivery
\* between them show the same picture.
C7_DrawShowsLastUpload ==
    (Ran("nativeOnDrawFrame") /\ ~call.freed /\ Target.hasFrame
        /\ Determinate(Target.uploaded) /\ Target.program \in gl.linked)
    => gl.screen = [drawn |-> TRUE, px |-> Target.uploaded]

\* C8: when release returns, no program, texture or buffer created by the
\* released pipeline is left in the graphics context.
C8_ReleaseDeletesAll ==
    (call.op = "nativeRelease" /\ call.result = "done" /\ ~call.freed)
    => \A n \in GlNames : /\ gl.progOwner[n] # call.handle
                          /\ gl.texOwner[n] # call.handle
                          /\ gl.bufOwner[n] # call.handle

\* C9: no failure raised inside a boundary function leaves it or ends the
\* host process.
C9_NoFailureEscapes == call.result \notin {"escaped", "terminated"}

\* C10: while hasFrame_ is false, onDrawFrame issues glClearColor and glClear
\* and nothing else: the screen is cleared, and the Renderer, the processor
\* and the rest of the graphics context stay as they were.
C10_BlankDrawOnlyClears ==
    [][ (call'.op = "nativeOnDrawFrame" /\ call'.result = "done"
            /\ ~heap[call'.handle].hasFrame)
        => /\ heap' = heap
           /\ tls' = tls
           /\ gl' = [gl EXCEPT !.log = ClearOnly, !.screen = ClearedScreen] ]_vars

\* A draw before any frame, on a Renderer whose GL objects exist.
C10_Witness ==
    /\ Ran("nativeOnDrawFrame") /\ ~call.freed
    /\ ~Target.hasFrame
    /\ Target.program # 0 /\ Target.texture # 0 /\ Target.vbo # 0
    /\ gl.log = ClearOnly

\* C11: onSurfaceChanged(width, height) stores the two screen dimensions and
\* sets the viewport, and nothing else: textures and their storage, object
\* names, the display buffer, hasFrame_ and the processor are as before.
C11_ResizeChangesOnlyViewport ==
    [][ (call'.op = "nativeOnSurfaceChanged" /\ call'.result = "done")
        => \E size \in ScreenSizes :
              /\ heap' = [heap EXCEPT ![call'.handle].screenWidth = size[1],
                                      ![call'.handle].screenHeight = size[2]]
              /\ tls' = tls
              /\ gl' = [gl EXCEPT !.viewport = size,
                                  !.log = << <<"glViewport", size[1] * size[2]>> >>] ]_vars

\* A resize of a pipeline that shows a transformed frame.
C11_Witness ==
    /\ call.op = "nativeOnSurfaceChanged" /\ call.result = "done" /\ ~call.freed
    /\ Target.hasFrame /\ Determinate(Target.uploaded)
    /\ gl.image[Target.texture].px = Target.uploaded
    /\ gl.viewport = <<Target.screenWidth, Target.screenHeight>>

\* C12: whenever onDrawFrame draws the texture of a pipeline, that texture
\* holds, in every pixel, the output of the newest frame the pipeline
\* accepted and transformed (the display buffer, which only a successful
\* transform writes): no older output and no mixture.
C12_DrawRendersNewestFrame ==
    (Ran("nativeOnDrawFrame") /\ ~call.freed /\ Target.hasFrame
        /\ Determinate(Target.rgbaBuffer) /\ Target.texture \in gl.textures)
    => gl.image[Target.texture].px = Target.rgbaBuffer

\* C13: a frame delivery never allocates or frees a pixel buffer after the
\* first one on the thread: the display buffer keeps its size, and once the
\* processor's buffers are initialized no later call re-creates any of them.
C13_BuffersAllocatedOnce ==
    [][ (call'.op = "nativeOnCameraFrame" /\ call'.result \in {"done", "cvError"}
            /\ ~call'.freed)
        => /\ Len(heap'[call'.handle].rgbaBuffer) = Len(heap[call'.handle].rgbaBuffer)
           /\ tls.initialized => tls' = tls ]_vars

\* C14: the texture of a live pipeline has storage of exactly the preview
\* size; a frame delivery creates no texture and changes no texture's
\* dimensions, and when the pipeline has a texture it replaces all of its
\* pixels by the display buffer.
C14_TextureHasPreviewSize ==
    /\ [](\A a \in live : heap[a].texture # 0 =>
             /\ heap[a].texture \in gl.textures
             /\ gl.image[heap[a].texture].w = heap[a].previewWidth
             /\ gl.image[heap[a].texture].h = heap[a].previewHeight)
    /\ [][ (call'.op = "nativeOnCameraFrame" /\ call'.result \in {"done", "cvError"}
              /\ ~call'.freed)
           => /\ gl'.textures = gl.textures
              /\ \A n \in 0..MaxGlNames : /\ gl'.image[n].w = gl.image[n].w
                                          /\ gl'.image[n].h = gl.image[n].h
              /\ (heap[call'.handle].texture # 0 /\ Matches(heap[call'.handle], call'.size))
                 => gl'.image[heap[call'.handle].texture].px
                       = heap'[call'.handle].rgbaBuffer ]_vars

\* A transformed frame was uploaded into the 4x2 texture of a 4x2 pipeline.
C14_Witness ==
    /\ call.op = "nativeOnCameraFrame" /\ call.result = "done" /\ ~call.freed
    /\ Matches(Target, call.size)
    /\ Target.texture # 0
    /\ Target.previewWidth # Target.previewHeight
    /\ gl.image[Target.texture].w = Target.previewWidth
    /\ Determinate(Target.rgbaBuffer)
    /\ gl.image[Target.texture].px = Target.rgbaBuffer

\* C15: nativeInit returns 0 exactly when constructing the Renderer (the
\* object or its display buffer) failed, leaving no pipeline behind, and the
\* handle of a new live pipeline otherwise; a call of any other boundary
\* function with handle 0 is rejected and changes no pipeline, no processor
\* buffer and nothing in the graphics context.
C15_InvalidHandle ==
    /\ [](call.op = "nativeInit" =>
             /\ call.handle = 0 <=> call.result = "caught"
             /\ call.handle # 0 <=> call.result = "done"
             /\ call.handle # 0 => call.handle \in live)
    /\ [][ /\ (call'.op = "nativeInit" /\ call'.handle = 0)
              => (heap' = heap /\ live' = live /\ issued' = issued)
           /\ (call'.op \notin {"none", "nativeInit"} /\ call'.handle = 0)
              => /\ call'.result = "rejected"
                 /\ heap' = heap /\ live' = live /\ tls' = tls
                 /\ gl' = StartCall(gl) ]_vars

\* A frame delivered with handle 0 while a pipeline that shows a frame lives.
C15_Witness ==
    /\ call.op = "nativeOnCameraFrame" /\ call.handle = 0 /\ call.result = "rejected"
    /\ \E a \in live : heap[a].hasFrame /\ heap[a].texture # 0

\* C16: the processor's buffers live and die with one pipeline: there are
\* none once release has returned, none when a new pipeline has just been
\* constructed, and after a pipeline's frame was transformed they are the
\* ones initializeBuffers makes for that pipeline's resolution.
C16_ScratchBuffersPerPipeline ==
    /\ (call.op = "nativeRelease" /\ call.result = "done" /\ ~call.freed)
       => tls = TlsInit
    /\ (call.op = "nativeInit" /\ call.result = "done") => tls = TlsInit
    /\ (call.op = "nativeOnCameraFrame" /\ call.result = "done" /\ ~call.freed
          /\ Matches(Target, call.size))
       => tls = initializeBuffers(TlsInit, call.size[1], call.size[2])

\* Luma values of the uniform frames the transform is computed for.
UniformLumas == {0, 16, 17, 100, 200, 235, 255}
Black(n) == Fill(n, <<0, 0, 0, 255>>)

\* C17: in the configured mode (MODE_CANNY) the display buffer a delivered
\* frame leaves is the transform of a camera frame, and the transform of
\* every frame of uniform luma and neutral chroma, at the size delivered, is
\* black in the three colour channels of every pixel.
C17_UniformFrameIsBlack ==
    (call.op = "nativeOnCameraFrame" /\ call.result = "done" /\ ~call.freed
        /\ Matches(Target, call.size))
    => LET w == call.size[1]
           h == call.size[2]
       IN  /\ PROCESSING_MODE = MODE_CANNY
           /\ Target.rgbaBuffer \in
                 {Transform(d, w, h, PROCESSING_MODE) : d \in FramesOf(w, h)}
           /\ \A L \in UniformLumas :
                 LET out == Transform(NV21(UniformLuma(w, h, L), NeutralChroma(w, h)),
                                      w, h, PROCESSING_MODE)
                 IN  /\ Len(out) = w * h
                     /\ \A i \in 1..(w * h) :
                           out[i][1] = 0 /\ out[i][2] = 0 /\ out[i][3] = 0

\* A uniform 4x2 frame was delivered and left a black display buffer.
C17_Witness ==
    /\ call.op = "nativeOnCameraFrame" /\ call.result = "done" /\ ~call.freed
    /\ call.size = <<4, 2>> /\ Matches(Target, call.size)
    /\ Target.rgbaBuffer = Black(8)
    /\ Target.rgbaBuffer =
          Transform(NV21(UniformLuma(4, 2, 200), NeutralChroma(4, 2)), 4, 2, PROCESSING_MODE)

\* C18: whenever nativeOnCameraFrame has got the elements of the byte array,
\* it has released them, once, by the time control leaves the function,
\* also when the Renderer call failed.
C18_ElementsReleasedOnce ==
    (call.op = "nativeOnCameraFrame" /\ ~call.freed)
    => (jni.got <= 1 /\ jni.released = jni.got)

\* C19: a byte array shorter than the frame its declared size needs, declared
\* at the preview size, is not turned away: processFrame runs on it, and when
\* the transform succeeds the display buffer is the transform of the
\* FrameBytes bytes read at the array's start, those past its end included.
C19_LengthNotValidated ==
    (call.op = "nativeOnCameraFrame" /\ call.result \in {"done", "cvError"}
        /\ ~call.freed /\ Matches(Target, call.size)
        /\ jni.length < FrameBytes(call.size[1], call.size[2]))
    => /\ jni.got = 1
       /\ tls.initialized
       /\ Target.hasFrame
       /\ call.result = "done" =>
             Target.rgbaBuffer \in
                { Transform(BytesAt(d, call.size[1], call.size[2], b),
                            call.size[1], call.size[2], PROCESSING_MODE) :
                     d \in {a \in ArraysOf(call.size[1], call.size[2]) :
                               Len(a) = jni.length},
                     b \in GarbageBytes }

\* A short array was transformed and its output uploaded to the texture.
C19_Witness ==
    /\ call.op = "nativeOnCameraFrame" /\ call.result = "done" /\ ~call.freed
    /\ Matches(Target, call.size)
    /\ jni.length > 0 /\ jni.length < FrameBytes(call.size[1], call.size[2])
    /\ Target.hasFrame /\ Determinate(Target.rgbaBuffer)
    /\ Target.texture # 0 /\ gl.image[Target.texture].px = Target.rgbaBuffer

\* The GL calls of a drawing onDrawFrame, in order.
DrawSteps ==
    << "glClearColor", "glClear", "glUseProgram", "glActiveTexture", "glBindTexture",
       "glUniform1i", "glBindBuffer",
       "glEnableVertexAttribArray", "glVertexAttribPointer",
       "glEnableVertexAttribArray", "glVertexAttribPointer",
       "glDrawArrays",
       "glDisableVertexAttribArray", "glDisableVertexAttribArray" >>

\* C20: an onDrawFrame of a pipeline whose surface was created and whose
\* hasFrame_ is true issues exactly the calls of DrawSteps, in that order, on
\* its own program, texture and buffer; the two attributes it enabled before
\* the draw call are the two vertex attributes, and none is enabled when it
\* returns.
C20_DrawStepsInOrder ==
    (Ran("nativeOnDrawFrame") /\ ~call.freed /\ Target.hasFrame /\ Target.locsSet)
    => /\ [i \in 1..Len(gl.log) |-> gl.log[i][1]] = DrawSteps
       /\ gl.log[3][2] = Target.program
       /\ gl.log[5][2] = Target.texture
       /\ gl.log[7][2] = Target.vbo
       /\ {gl.log[8][2], gl.log[10][2]} = AttribIndexes
       /\ gl.attribs = {}

====
